---- MODULE Spec2Model ----
(***************************************************************************)
(* Device registry: DeviceRepository (internal/repository/device_repo.go)  *)
(* over a DynamoDB table keyed by id, invoked by concurrently running,     *)
(* stateless handlers.  Every DynamoDB call (GetItem, PutItem, UpdateItem, *)
(* DeleteItem) is one atomic step on one item; a repository method that    *)
(* issues several calls is several steps, and other invocations may run    *)
(* between them.                                                           *)
(***************************************************************************)
EXTENDS Integers, FiniteSets, Sequences, TLC

\* ------------------------------------------------------------------------
\* Bounds
\* ------------------------------------------------------------------------
MaxIds == 2          \* number of identifiers uuid.New() can hand out
NumProcs == 2        \* concurrently running invocations
StartClock == 1999   \* wall clock (ms since epoch) when the model starts
MaxClock == 2000     \* the clock stops advancing here
MaxCalls == 3        \* calls started in one run
MaxBatch == 2        \* records in one delivered SQS event

\* time.Time: milliseconds in one second (UnixMilli vs Unix)
MsPerSec == 1000

Ids == 1..MaxIds
Procs == 1..NumProcs
NoID == 0            \* the empty string as an identifier
ForeignID == MaxIds + 1   \* a well-formed identifier no create ever returned
\* a non-empty identifier that uuid.Parse rejects
BadID == MaxIds + 2

VARIABLES
    store,    \* the DynamoDB table: present keys -> item
    clock,    \* wall clock, milliseconds since epoch
    issued,   \* identifiers uuid.New() has produced so far
    proc,     \* per invocation: position, arguments and locals
    resp,     \* what the last step returned to its caller, if it returned
    calls     \* number of repository calls started so far

vars == <<store, clock, issued, proc, resp, calls>>

\* ------------------------------------------------------------------------
\* models.Device
\* ------------------------------------------------------------------------
Device(id, mac, name, type, homeId, createdAt, modifiedAt) ==
    [id |-> id, mac |-> mac, name |-> name, type |-> type, homeId |-> homeId,
     createdAt |-> createdAt, modifiedAt |-> modifiedAt]

\* the zero value of models.Device (also what UnmarshalMap leaves for a nil item)
ZeroDevice == Device(NoID, "", "", "", "", 0, 0)

\* the string fields a caller can set
MutableFields == {"mac", "name", "type", "homeId"}

\* ------------------------------------------------------------------------
\* time
\* ------------------------------------------------------------------------
UnixMilli(t) == t
Unix(t) == t \div MsPerSec

\* ------------------------------------------------------------------------
\* DynamoDB item operations
\* ------------------------------------------------------------------------
\* GetItem: result.Item == nil when the key is absent
ItemExists(tbl, id) == id \in DOMAIN tbl

\* UnmarshalMap into a struct whose homeId tag does not match the attribute
\* name: the field is left at its zero value
UnmarshalItemNoHomeId(tbl, id) ==
    IF ItemExists(tbl, id) THEN [tbl[id] EXCEPT !.homeId = ""] ELSE ZeroDevice

\* attributevalue.UnmarshalMap of the item read (zero value for a nil item)
UnmarshalItem(tbl, id) == IF ItemExists(tbl, id) THEN tbl[id] ELSE ZeroDevice

\* PutItem: unconditional upsert of the whole item under its key
PutItem(tbl, item) ==
    [k \in (DOMAIN tbl) \cup {item.id} |-> IF k = item.id THEN item ELSE tbl[k]]

\* DeleteItem: removes the key; succeeds whether or not it was present
DeleteItem(tbl, id) == [k \in (DOMAIN tbl) \ {id} |-> tbl[k]]

\* UpdateItem as a replacement of the whole item (PutItem semantics): the
\* attributes that are not SET are lost
UpdateItemReplace(tbl, id, updates) ==
    LET base == [ZeroDevice EXCEPT !.id = id]
        new == [f \in DOMAIN base |->
                  IF f \in DOMAIN updates THEN updates[f] ELSE base[f]]
    IN [k \in (DOMAIN tbl) \cup {id} |-> IF k = id THEN new ELSE tbl[k]]

\* UpdateItem with "SET #f = :f, ..." and no ConditionExpression: applies the
\* SET clauses to the item as it is now, creating the item when the key is
\* absent.  `updates` is a record with one entry per SET clause.
UpdateItem(tbl, id, updates) ==
    LET base == IF ItemExists(tbl, id) THEN tbl[id]
                ELSE [ZeroDevice EXCEPT !.id = id]
        new == [f \in DOMAIN base |->
                  IF f \in DOMAIN updates THEN updates[f] ELSE base[f]]
    IN [k \in (DOMAIN tbl) \cup {id} |-> IF k = id THEN new ELSE tbl[k]]

\* an attribute stored with a DynamoDB type other than N (for instance the
\* string "yesterday") under a name whose struct field is int64
NotN == -1

\* attributevalue.UnmarshalMap(item, &device) returns an error
UnmarshalFails(item) == item.createdAt = NotN \/ item.modifiedAt = NotN

\* Scan: result.Items, the items of the table in an order the caller does
\* not control
Scan(tbl) ==
    LET n == Cardinality(DOMAIN tbl)
        orders == {f \in [1..n -> DOMAIN tbl] :
                     \A i, j \in 1..n : i # j => f[i] # f[j]}
    IN {[i \in 1..n |-> tbl[f[i]]] : f \in orders}

\* ------------------------------------------------------------------------
\* DeviceRepository.GetDevices: the loop over result.Items
\* ------------------------------------------------------------------------
\* for i, item := range result.Items: an item that fails to unmarshal is
\* skipped (continue), any other is appended to devices
RECURSIVE UnmarshalLoop(_, _, _)
UnmarshalLoop(items, i, devices) ==
    IF i > Len(items) THEN devices
    ELSE IF UnmarshalFails(items[i])
      THEN UnmarshalLoop(items, i + 1, devices)
      ELSE UnmarshalLoop(items, i + 1, Append(devices, items[i]))

\* ------------------------------------------------------------------------
\* DeviceRepository.UpdateDevice: the SET clauses built from the update
\* ------------------------------------------------------------------------
\* the SET clauses without the zero-value checks: every field is written
UpdateClausesAllFields(update, now) ==
    [f \in MutableFields \cup {"modifiedAt"} |->
        IF f = "modifiedAt" THEN now ELSE update[f]]

\* the SET clauses without the modifiedAt clause
UpdateClausesNoStamp(update, now) ==
    [f \in {g \in MutableFields : update[g] # ""} |-> update[f]]

\* only fields that are not zero values, and always modifiedAt
UpdateClauses(update, now) ==
    [f \in {g \in MutableFields : update[g] # ""} \cup {"modifiedAt"} |->
        IF f = "modifiedAt" THEN now ELSE update[f]]

\* the short circuit tested as len(updates) == 0, which never holds because
\* modifiedAt is always among the updates
OnlyModifiedAtNever(update) == FALSE

\* len(updates) == 1: only modifiedAt would be written
OnlyModifiedAt(update) == \A f \in MutableFields : update[f] = ""

\* SET clauses that also stamp createdAt
HomeIDClausesStampCreated(homeID, now) ==
    [homeId |-> homeID, modifiedAt |-> now, createdAt |-> now]

\* SET clauses of UpdateDeviceHomeID
HomeIDClauses(homeID, now) == [homeId |-> homeID, modifiedAt |-> now]

\* ------------------------------------------------------------------------
\* validation.ValidateUpdateDeviceRequest over models.UpdateDeviceRequest
\* ------------------------------------------------------------------------
\* a *string field: <<>> is nil, <<v>> points to v
None == <<>>
Some(v) == <<v>>

UpdateDeviceRequest(name, type, homeId) ==
    [name |-> name, type |-> type, homeId |-> homeId]

\* a name of 101 characters
LongName == "n101"

\* len(s) for the names the model uses
NameLen(s) == IF s = "" THEN 0 ELSE IF s = LongName THEN 101 ELSE 2

validTypes == {"thermostat", "light", "camera", "sensor"}

\* the strings uuid.Parse accepts
UUIDs == {"h1", "h2"}

ErrMACFormat ==
    "MAC address format is invalid (expected format: XX:XX:XX:XX:XX:XX)"

\* the strings macRegex matches
MACs == {"m1", "m2"}

CreateDeviceRequest(mac, name, type, homeId) ==
    [mac |-> mac, name |-> name, type |-> type, homeId |-> homeId]

\* ValidateCreateDeviceRequest returning at the first violation it finds
ValidateCreateDeviceRequestFirstOnly(req) ==
    IF req.mac = "" THEN <<"MAC address is required">>
    ELSE IF req.mac \notin MACs THEN <<ErrMACFormat>>
    ELSE IF req.name = "" THEN <<"name is required">>
    ELSE IF NameLen(req.name) < 1 \/ NameLen(req.name) > 100
      THEN <<"name must be between 1 and 100 characters">>
    ELSE IF req.type = "" THEN <<"type is required">>
    ELSE IF req.type \notin validTypes
      THEN <<"type must be one of: thermostat, light, camera, sensor">>
    ELSE IF req.homeId = "" THEN <<"homeId is required">>
    ELSE IF req.homeId \notin UUIDs THEN <<"homeId must be a valid UUID">>
    ELSE <<>>

\* validation.ValidateCreateDeviceRequest: the validationErrors collected,
\* in the order mac, name, type, homeId; the request is rejected with
\* ErrValidationFailed carrying all of them when there is one
ValidateCreateDeviceRequest(req) ==
    (IF req.mac = "" THEN <<"MAC address is required">>
     ELSE IF req.mac \notin MACs THEN <<ErrMACFormat>>
     ELSE <<>>)
    \o (IF req.name = "" THEN <<"name is required">>
        ELSE IF NameLen(req.name) < 1 \/ NameLen(req.name) > 100
          THEN <<"name must be between 1 and 100 characters">>
        ELSE <<>>)
    \o (IF req.type = "" THEN <<"type is required">>
        ELSE IF req.type \notin validTypes
          THEN <<"type must be one of: thermostat, light, camera, sensor">>
        ELSE <<>>)
    \o (IF req.homeId = "" THEN <<"homeId is required">>
        ELSE IF req.homeId \notin UUIDs THEN <<"homeId must be a valid UUID">>
        ELSE <<>>)

\* DeviceHandler.CreateDevice: the models.Device built from the request
CreateRequestDevice(req) ==
    Device(NoID, req.mac, req.name, req.type, req.homeId, 0, 0)

\* the validationErrors collected; the request is rejected when there is one
ValidateUpdateDeviceRequest(req) ==
    (IF req.name # None /\ (NameLen(req.name[1]) < 1
                            \/ NameLen(req.name[1]) > 100)
       THEN <<"name must be between 1 and 100 characters">> ELSE <<>>)
    \o (IF req.type # None /\ req.type[1] \notin validTypes
         THEN <<"type must be one of: thermostat, light, camera, sensor">>
         ELSE <<>>)
    \o (IF req.homeId # None /\ req.homeId[1] \notin UUIDs
         THEN <<"homeId must be a valid UUID">> ELSE <<>>)
    \o (IF req.name = None /\ req.type = None /\ req.homeId = None
         THEN <<"at least one field (name, type, or homeId) must be provided for update">>
         ELSE <<>>)

\* the JSON body of an update request: the keys it carries and their values
UpdateBody(mac, name, type, homeId) ==
    [mac |-> mac, name |-> name, type |-> type, homeId |-> homeId]

\* no request body: the call did not come through DeviceHandler
NoBody == UpdateBody(None, None, None, None)

\* json.Unmarshal into models.UpdateDeviceRequest: the struct has the
\* fields name, type and homeId, and a key without a field is ignored
DecodeUpdateDeviceRequest(body) ==
    UpdateDeviceRequest(body.name, body.type, body.homeId)

\* DeviceHandler.UpdateDevice: the models.Device built from the request
RequestDevice(req) ==
    [ZeroDevice EXCEPT
        !.name = IF req.name # None THEN req.name[1] ELSE "",
        !.type = IF req.type # None THEN req.type[1] ELSE "",
        !.homeId = IF req.homeId # None THEN req.homeId[1] ELSE ""]

\* validation.ValidateDeviceID: not blank, and uuid.Parse accepts it (every
\* identifier of CallerIds is a UUID)
ValidateDeviceID(id) == id # NoID /\ id # BadID

\* the message of the error ValidateDeviceID returns
DeviceIDError(id) ==
    IF id = NoID THEN <<"Device ID is required">>
                 ELSE <<"Device ID must be a valid UUID">>

\* ------------------------------------------------------------------------
\* Inputs
\* ------------------------------------------------------------------------
\* identifiers a caller can name: those returned by earlier creates and one
\* that was never returned.  uuid.New() draws 122 random bits, so a caller
\* cannot name an identifier before a create returns it.
CallerIds == issued \cup {ForeignID}

\* devices handed to CreateDevice: without id, or with a caller-chosen id and
\* caller-chosen timestamps
CreateInputs ==
    { Device(NoID, "m1", "n1", "light", "h1", 0, 0) }
    \cup { Device(k, "m1", "n1", "light", "h1", 7, 7) : k \in CallerIds }

\* partial updates handed to UpdateDevice (zero value = field not supplied)
UpdateInputs ==
    { Device(NoID, "", "n2", "camera", "", 0, 0),
      Device(NoID, "m2", "", "", "h2", 0, 0),
      ZeroDevice }

\* request bodies handed to DeviceHandler.UpdateDevice: no field, valid
\* name and type, a name that is present and empty, an unknown type
UpdateRequests ==
    { UpdateBody(None, None, None, None),
      UpdateBody(None, Some("n2"), Some("camera"), None),
      UpdateBody(None, Some(""), None, None),
      UpdateBody(None, None, Some("oven"), None) }

\* every combination of absent, malformed and valid values of the four keys
UpdateBodies ==
    { UpdateBody(m, n, t, h) :
        m \in {None, Some("zz"), Some("m2")},
        n \in {None, Some(""), Some("n2")},
        t \in {None, Some("oven"), Some("camera")},
        h \in {None, Some("h3"), Some("h2")} }

\* request bodies handed to DeviceHandler.CreateDevice: every field empty,
\* malformed or valid
CreateRequests ==
    { CreateDeviceRequest(m, n, t, h) :
        m \in {"", "zz", "m1"}, n \in {"", LongName, "n1"},
        t \in {"", "oven", "light"}, h \in {"", "h3", "h1"} }

\* home identifiers handed to UpdateDeviceHomeID
HomeIDInputs == {"h3"}

\* the body of an SQS record: text json.Unmarshal accepts (valid), holding
\* the three keys of models.SQSMessage, or text it rejects
SQSMessage(deviceId, homeId, action) ==
    [valid |-> TRUE, deviceId |-> deviceId, homeId |-> homeId,
     action |-> action]

BadJSON == [valid |-> FALSE, deviceId |-> NoID, homeId |-> "", action |-> ""]

\* action labels a message can carry
Actions == {"associate", "dissociate"}

\* record bodies that can be delivered: text that is not JSON, a message
\* without home identifier, messages with every identifier a sender can
\* name (or none) and every action label, and messages that move a created
\* device to a second home
Bodies ==
    {BadJSON, SQSMessage(ForeignID, "", "associate")} \cup
    { SQSMessage(d, "h3", a) : d \in CallerIds \cup {NoID}, a \in Actions }
    \cup { SQSMessage(d, "h2", "associate") : d \in issued }

\* delivered events: one to MaxBatch records
Batches == UNION { [1..n -> Bodies] : n \in 1..MaxBatch }

\* the home identifier SQSService.ProcessMessage hands to the service, were
\* the action label interpreted: a "dissociate" clears the association
MessageHomeIDByAction(message) ==
    IF message.action = "dissociate" THEN "" ELSE message.homeId

\* the home identifier SQSService.ProcessMessage hands to the service
MessageHomeID(message) == message.homeId

\* ------------------------------------------------------------------------
\* Invocations
\* ------------------------------------------------------------------------
\* the tags of an error value: Operation, Layer and Context["device_id"]
Tags(operation, layer, deviceId) ==
    [operation |-> operation, layer |-> layer, deviceId |-> deviceId]

\* ErrDomainDeviceNotFound as NewDomainError made it
Untagged == Tags("", "", NoID)

\* no error is referenced
NoHeld == [object |-> "none", tags |-> Untagged]

\* pc: "idle"        no call in progress,
\*     "UpdateItem"  UpdateDevice between its GetItem and its UpdateItem,
\*     "GetUpdated"  UpdateDevice between its UpdateItem and the final GetItem,
\*     "PatchItem"   UpdateDeviceHomeID between reading the clock and UpdateItem
\* body: the request body the call came from (NoBody for a direct call)
\* records: the records of the SQS event being processed, from the current
\*     one on (empty outside SQSHandler.ProcessMessage)
\* event: all records of that SQS event
\* reused: the process that runs the invocation runs the next one too (a
\*     warm start), so its package-level variables keep their values;
\*     otherwise every invocation starts in a new process
\* predefined: the tags of the package-level error ErrDomainDeviceNotFound
\*     in this process
\* held: the first error a call returned in this process, still referenced
\*     by its caller: which object it is and the tags it had when returned
IdleProc == [pc |-> "idle", id |-> NoID, update |-> ZeroDevice,
             homeID |-> "", now |-> 0, currentDevice |-> ZeroDevice,
             body |-> NoBody, records |-> <<>>, event |-> <<>>,
             reused |-> FALSE, predefined |-> Untagged, held |-> NoHeld]

\* no call returned in this step
\* (items: what Scan handed to GetDevices; list: the devices it returned)
\* repoErr: the error value the repository returned (NoError: nil)
\* passed: the error the service returns to its caller
\* response: the response DeviceHandler builds from that error
\* record: the SQS record the call was made for, if any (None or Some)
\* event: the SQS event that record belongs to
\* an error value: a *DomainError (domain) with its Type, Operation, Layer
\* and the text of its Cause ("" for nil), or any other error
ErrorValue(domain, type, operation, layer, cause, text) ==
    [domain |-> domain, type |-> type, operation |-> operation,
     layer |-> layer, cause |-> cause, text |-> text]

\* nil
NoError == ErrorValue(FALSE, "", "", "", "", "")

\* the error the AWS SDK returned to the repository
SDKError == "operation error DynamoDB"

\* errors.WrapError: a new DomainError of the given type around cause
WrapError(type, text, cause) ==
    ErrorValue(TRUE, type, "", "", cause.text, text)

\* DomainError.WithOperation, DomainError.WithLayer
WithOperation(e, operation) == [e EXCEPT !.operation = operation]

WithLayer(e, layer) == [e EXCEPT !.layer = layer]

\* the error value behind a failure of repository operation op: the
\* predefined not-found and unmarshal errors, which have no cause, the
\* wrapped SDK and unmarshal errors, and the errors.New value that an
\* implementation of the DeviceRepository interface without domain errors
\* (MockDeviceRepository) returns
RepositoryError(op, err) ==
    IF err = "" THEN NoError
    ELSE IF err = "PlainError"
      THEN ErrorValue(FALSE, "", "", "", "", "device not found")
    ELSE IF err = "NotFound"
      THEN WithLayer(WithOperation(
             ErrorValue(TRUE, "NotFound", "", "", "", "device not found"),
             op), "repository")
    ELSE IF err = "UnmarshalFailure" /\ op = "GetDevices"
      THEN WithLayer(WithOperation(
             ErrorValue(TRUE, "UnmarshalFailure", "", "", "",
                        "failed to unmarshal device data"),
             op), "repository")
    ELSE WithLayer(WithOperation(
             WrapError(err, "failed",
                       ErrorValue(FALSE, "", "", "", "", SDKError)),
             op), "repository")

\* a service that answers an error which is not a DomainError with a fresh
\* internal error and drops the error it got
ServiceErrorReplace(op, e) ==
    IF e = NoError THEN NoError
    ELSE IF e.domain THEN WithLayer(e, "service")
    ELSE WithLayer(WithOperation(
           ErrorValue(TRUE, "InternalFailure", "", "", "", "failed"), op),
           "service")

\* DeviceService, every operation: what it returns for the error e of its
\* repository call (a DomainError gets the layer "service", anything else
\* is wrapped as an internal error)
ServiceError(op, e) ==
    IF e = NoError THEN NoError
    ELSE IF e.domain THEN WithLayer(e, "service")
    ELSE WithLayer(WithOperation(WrapError("InternalFailure", "failed", e),
                                 op), "service")

\* the status codes NewDomainError assigns
StatusBadRequest == 400
StatusUnauthorized == 401
StatusNotFound == 404
StatusConflict == 409
StatusInternalServerError == 500

\* NewDomainError: the StatusCode a DomainError gets from its type
StatusCode(type) ==
    IF type = "ValidationFailure" THEN StatusBadRequest
    ELSE IF type = "NotFound" THEN StatusNotFound
    ELSE IF type = "Conflict" THEN StatusConflict
    ELSE IF type = "Unauthorized" THEN StatusUnauthorized
    ELSE StatusInternalServerError

\* DomainError.ToAPIError whose message is Error(): the message followed by
\* the text of the cause
ToAPIErrorWithCause(e) ==
    [code |-> IF e.type = "ValidationFailure" THEN "VALIDATION_ERROR"
              ELSE IF e.type = "NotFound" THEN "NOT_FOUND"
              ELSE IF e.type = "Conflict" THEN "CONFLICT"
              ELSE IF e.type = "Unauthorized" THEN "UNAUTHORIZED"
              ELSE "INTERNAL_ERROR",
     message |-> IF e.cause # "" THEN <<e.text, e.cause>> ELSE <<e.text>>,
     statusCode |-> StatusCode(e.type)]

\* DomainError.ToAPIError: the code of the type, the Message and the
\* StatusCode (message: the strings the message text is made of)
ToAPIError(e) ==
    [code |-> IF e.type = "ValidationFailure" THEN "VALIDATION_ERROR"
              ELSE IF e.type = "NotFound" THEN "NOT_FOUND"
              ELSE IF e.type = "Conflict" THEN "CONFLICT"
              ELSE IF e.type = "Unauthorized" THEN "UNAUTHORIZED"
              ELSE "INTERNAL_ERROR",
     message |-> <<e.text>>,
     statusCode |-> StatusCode(e.type)]

\* APIError.ToResponse: the status and a JSON body of code and message
ToResponse(e) ==
    [statusCode |-> e.statusCode,
     body |-> [code |-> e.code, message |-> e.message]]

\* no error response
NoResponse == [statusCode |-> 0, body |-> [code |-> "", message |-> <<>>]]

\* DeviceHandler, every operation: the response for the error e that the
\* service returned
ErrorResponse(e) ==
    IF e = NoError THEN NoResponse ELSE ToResponse(ToAPIError(e))

\* the validation error with which the service rejects a call
ServiceValidationError(op, msgs) ==
    WithLayer(WithOperation(
        ErrorValue(TRUE, "ValidationFailure", "", "", "", msgs[1]), op),
        "service")

\* batch: what SQSHandler.ProcessMessage does after this return: "none"
\*     (the call was not made for an SQS record), "next" (goes on to the next
\*     record), "nil" (returns nil), "error" (returns the error)
NoResp == [op |-> "none", id |-> NoID, arg |-> ZeroDevice,
           ret |-> ZeroDevice, err |-> "", items |-> <<>>, list |-> <<>>,
           layer |-> "", msgs |-> <<>>, body |-> NoBody, batch |-> "none",
           record |-> <<>>, repoErr |-> NoError, passed |-> NoError,
           event |-> <<>>, response |-> NoResponse]

\* SQSHandler.ProcessMessage that logs the error of a record and goes on
\* with the next record
NextRecordsSkipFailed(records, err) ==
    IF records = <<>> THEN <<>> ELSE Tail(records)

\* SQSHandler.ProcessMessage that calls the service again for a record that
\* failed
NextRecordsRetry(records, err) ==
    IF records = <<>> THEN <<>>
    ELSE IF err # "" THEN records
    ELSE Tail(records)

\* SQSHandler.ProcessMessage, the loop: the records left after the service
\* returned err for the first of them
NextRecords(records, err) ==
    IF records = <<>> \/ err # "" THEN <<>> ELSE Tail(records)

\* SQSHandler.ProcessMessage: what the loop does after the service returned
BatchOutcome(records, err) ==
    IF records = <<>> THEN "none"
    ELSE IF err # "" THEN "error"
    ELSE IF NextRecords(records, err) = <<>> THEN "nil"
    ELSE "next"

\* the record SQSHandler.ProcessMessage is at
CurrentRecord(records) ==
    IF records = <<>> THEN <<>> ELSE <<Head(records)>>

\* what outlives a call in the process of invocation p
Process(p) ==
    [IdleProc EXCEPT !.reused = proc[p].reused,
                     !.predefined = proc[p].predefined,
                     !.held = proc[p].held]

\* the invocation after a call returned err
AfterReturn(p, err) ==
    [Process(p) EXCEPT !.records = NextRecords(proc[p].records, err),
                     !.event = IF NextRecords(proc[p].records, err) = <<>>
                                 THEN <<>> ELSE proc[p].event]

\* the process after the repository and the service tagged and returned
\* err: a not-found error is the package-level ErrDomainDeviceNotFound,
\* whose fields WithOperation, WithLayer and WithContext overwrite; any
\* other error is a new value made by WrapError
AfterError(p, op, id, err) ==
    IF ~proc[p].reused \/ err = "" THEN AfterReturn(p, err)
    ELSE [AfterReturn(p, err) EXCEPT
            !.predefined = IF err = "NotFound" THEN Tags(op, "service", id)
                           ELSE @,
            !.held = IF @ # NoHeld THEN @
                     ELSE [object |-> IF err = "NotFound"
                                        THEN "ErrDomainDeviceNotFound"
                                        ELSE "new",
                           tags |-> Tags(op, "service", id)]]

\* the repository returns to a call that came from request body `body`
ReturnedBody(p, op, id, arg, ret, err, body) ==
    /\ proc' = [proc EXCEPT ![p] = AfterError(p, op, id, err)]
    /\ resp' = [NoResp EXCEPT !.op = op, !.id = id, !.arg = arg,
                              !.ret = ret, !.err = err,
                              !.layer = "repository", !.body = body,
                              !.batch = BatchOutcome(proc[p].records, err),
                              !.record = CurrentRecord(proc[p].records),
                              !.event = proc[p].event,
                              !.repoErr = RepositoryError(op, err),
                              !.passed =
                                  ServiceError(op, RepositoryError(op, err)),
                              !.response = ErrorResponse(
                                  ServiceError(op, RepositoryError(op, err)))]

\* the call returns: the invocation ends and its caller sees (ret, err)
Returned(p, op, id, arg, ret, err) ==
    ReturnedBody(p, op, id, arg, ret, err, NoBody)

\* a layer above the repository rejects the call before delegating
\* (msgs: the violations its message lists)
Rejected(p, layer, op, id, arg, msgs, body) ==
    /\ proc' = [proc EXCEPT ![p] = AfterReturn(p, "ValidationFailure")]
    /\ resp' = [NoResp EXCEPT !.op = op, !.id = id, !.arg = arg,
                              !.err = "ValidationFailure", !.layer = layer,
                              !.msgs = msgs, !.body = body,
                              !.batch = BatchOutcome(proc[p].records,
                                                     "ValidationFailure"),
                              !.record = CurrentRecord(proc[p].records),
                              !.event = proc[p].event,
                              !.passed =
                                  IF layer = "service"
                                    THEN ServiceValidationError(op, msgs)
                                    ELSE NoError,
                              !.response =
                                  IF layer = "service"
                                    THEN ErrorResponse(
                                           ServiceValidationError(op, msgs))
                                    ELSE NoResponse]

Init ==
    /\ store = <<>>
    /\ clock = StartClock
    /\ issued = {}
    /\ proc = [p \in Procs |-> IdleProc]
    /\ resp = NoResp
    /\ calls = 0

\* the wall clock advances
Tick ==
    /\ clock < MaxClock
    /\ clock' = clock + 1
    /\ resp' = NoResp
    /\ UNCHANGED <<store, issued, proc, calls>>

\* invocation p starts a repository call
Start(p) ==
    /\ proc[p].pc = "idle"
    /\ calls < MaxCalls
    /\ calls' = calls + 1

\* uuid.New(): an identifier that was never produced before
NewUUID(used) == Ids \ used

\* CreateDevice that trusts an identifier supplied by the caller
NewDeviceKeepID(device, newID, now) ==
    [device EXCEPT !.id = IF device.id # NoID THEN device.id ELSE newID,
                   !.createdAt = now, !.modifiedAt = now]

\* CreateDevice that leaves modifiedAt as the caller sent it
NewDeviceNoModifiedAt(device, newID, now) ==
    [device EXCEPT !.id = newID, !.createdAt = now]

\* CreateDevice: identity and timestamps assigned to the caller's device
NewDevice(device, newID, now) ==
    [device EXCEPT !.id = newID, !.createdAt = now, !.modifiedAt = now]

\* DeviceRepository.CreateDevice
CreateDevice(p, device) ==
    /\ Start(p)
    /\ \E newID \in NewUUID(issued) :
         LET d == NewDevice(device, newID, UnixMilli(clock))
         IN /\ store' = PutItem(store, d)
            /\ issued' = issued \cup {newID}
            /\ Returned(p, "CreateDevice", NoID, device, d, "")
    /\ UNCHANGED clock

\* DeviceHandler.CreateDevice: ValidateCreateDeviceRequest, the conversion
\* and DeviceService.CreateDevice, which hands the device to the repository
HandlerCreateDevice(p, req) ==
    IF ValidateCreateDeviceRequest(req) # <<>>
      THEN /\ Start(p)
           /\ Rejected(p, "handler", "CreateDevice", NoID,
                       CreateRequestDevice(req),
                       ValidateCreateDeviceRequest(req), NoBody)
           /\ UNCHANGED <<store, clock, issued>>
      ELSE CreateDevice(p, CreateRequestDevice(req))

\* DeviceRepository.GetDevice
GetDevice(p, id) ==
    /\ Start(p)
    /\ IF ItemExists(store, id)
         THEN Returned(p, "GetDevice", id, ZeroDevice,
                       UnmarshalItem(store, id), "")
         ELSE Returned(p, "GetDevice", id, ZeroDevice, ZeroDevice, "NotFound")
    /\ UNCHANGED <<store, clock, issued>>

\* GetDevices returns to its caller
ReturnedList(items, list, err) ==
    [NoResp EXCEPT !.op = "GetDevices", !.items = items, !.list = list,
                   !.err = err, !.layer = "repository",
                   !.repoErr = RepositoryError("GetDevices", err),
                   !.passed = ServiceError("GetDevices",
                                  RepositoryError("GetDevices", err)),
                   !.response = ErrorResponse(ServiceError("GetDevices",
                                  RepositoryError("GetDevices", err)))]

\* GetDevices without the "result.Count == 0" return: an empty table gives
\* an empty list and no error
GetDevicesResultEmptyOK(items) ==
    LET devices == UnmarshalLoop(items, 1, <<>>)
    IN IF Len(devices) = 0 /\ Len(items) > 0
         THEN ReturnedList(items, <<>>, "UnmarshalFailure")
         ELSE ReturnedList(items, devices, "")

\* GetDevices that returns the unmarshal error of the first item that fails
\* instead of skipping the item
GetDevicesResultAbortOnFailure(items) ==
    LET devices == UnmarshalLoop(items, 1, <<>>)
    IN IF Len(items) = 0
         THEN ReturnedList(items, <<>>, "NotFound")
       ELSE IF Len(devices) < Len(items)
         THEN ReturnedList(items, <<>>, "UnmarshalFailure")
       ELSE ReturnedList(items, devices, "")

\* GetDevices after Scan: the empty-result return (ErrDomainNoDevicesFound),
\* the unmarshal loop and the all-items-failed return (ErrUnmarshalDevice)
GetDevicesResult(items) ==
    LET devices == UnmarshalLoop(items, 1, <<>>)
    IN IF Len(items) = 0
         THEN ReturnedList(items, <<>>, "NotFound")
       ELSE IF Len(devices) = 0 /\ Len(items) > 0
         THEN ReturnedList(items, <<>>, "UnmarshalFailure")
       ELSE ReturnedList(items, devices, "")

\* DeviceRepository.GetDevices
GetDevices(p) ==
    /\ Start(p)
    /\ \E items \in Scan(store) : resp' = GetDevicesResult(items)
    /\ UNCHANGED <<store, clock, issued, proc>>

\* DeviceRepository.DeleteDevice
DeleteDevice(p, id) ==
    /\ Start(p)
    /\ store' = DeleteItem(store, id)
    /\ Returned(p, "DeleteDevice", id, ZeroDevice, ZeroDevice, "")
    /\ UNCHANGED <<clock, issued>>

\* UpdateDevice without the "result.Item == nil" return: an absent id goes
\* on to the short circuit or to UpdateItem
UpdateDeviceReadUnchecked(p, id, update, body) ==
    /\ Start(p)
    /\ IF OnlyModifiedAt(update)
         THEN ReturnedBody(p, "UpdateDevice", id, update,
                           UnmarshalItem(store, id), "", body)
         ELSE /\ proc' = [proc EXCEPT ![p] =
                   [Process(p) EXCEPT !.pc = "UpdateItem", !.id = id,
                                    !.update = update,
                                    !.now = Unix(clock),
                                    !.currentDevice =
                                        UnmarshalItem(store, id),
                                    !.body = body]]
              /\ resp' = NoResp
    /\ UNCHANGED <<store, clock, issued>>

\* DeviceRepository.UpdateDevice, up to the UpdateItem call: GetItem, the
\* not-found return, the SET clauses, the clock reading and the short circuit
UpdateDeviceRead(p, id, update, body) ==
    /\ Start(p)
    /\ IF ~ItemExists(store, id)
         THEN ReturnedBody(p, "UpdateDevice", id, update, ZeroDevice,
                           "NotFound", body)
         ELSE IF OnlyModifiedAt(update)
           THEN ReturnedBody(p, "UpdateDevice", id, update,
                             UnmarshalItem(store, id), "", body)
           ELSE /\ proc' = [proc EXCEPT ![p] =
                     [Process(p) EXCEPT !.pc = "UpdateItem", !.id = id,
                                      !.update = update,
                                      !.now = Unix(clock),
                                      !.currentDevice =
                                          UnmarshalItem(store, id),
                                      !.body = body]]
                /\ resp' = NoResp
    /\ UNCHANGED <<store, clock, issued>>

\* DeviceService.UpdateDevice: the empty-id check, then the repository
ServiceUpdateDevice(p, id, device, body) ==
    IF id = NoID
      THEN /\ Start(p)
           /\ Rejected(p, "service", "UpdateDevice", id, device,
                       <<"invalid device ID format">>, body)
           /\ UNCHANGED <<store, clock, issued>>
      ELSE UpdateDeviceRead(p, id, device, body)

\* DeviceHandler.UpdateDevice: the path parameter check, ValidateDeviceID,
\* the decoding of the body, ValidateUpdateDeviceRequest, the conversion and
\* the service call
HandlerUpdateDevice(p, id, body) ==
    LET req == DecodeUpdateDeviceRequest(body)
    IN IF id = NoID \/ ~ValidateDeviceID(id)
         THEN /\ Start(p)
              /\ Rejected(p, "handler", "UpdateDevice", id,
                          RequestDevice(req), DeviceIDError(id), body)
              /\ UNCHANGED <<store, clock, issued>>
       ELSE IF ValidateUpdateDeviceRequest(req) # <<>>
         THEN /\ Start(p)
              /\ Rejected(p, "handler", "UpdateDevice", id,
                          RequestDevice(req),
                          ValidateUpdateDeviceRequest(req), body)
              /\ UNCHANGED <<store, clock, issued>>
       ELSE ServiceUpdateDevice(p, id, RequestDevice(req), body)

\* DeviceRepository.UpdateDevice: the UpdateItem call
UpdateDeviceWrite(p) ==
    /\ proc[p].pc = "UpdateItem"
    /\ store' = UpdateItem(store, proc[p].id,
                           UpdateClauses(proc[p].update, proc[p].now))
    /\ proc' = [proc EXCEPT ![p].pc = "GetUpdated"]
    /\ resp' = NoResp
    /\ UNCHANGED <<clock, issued, calls>>

\* DeviceRepository.UpdateDevice: the final GetItem and return
UpdateDeviceReread(p) ==
    /\ proc[p].pc = "GetUpdated"
    /\ ReturnedBody(p, "UpdateDevice", proc[p].id, proc[p].update,
                    UnmarshalItem(store, proc[p].id), "", proc[p].body)
    /\ UNCHANGED <<store, clock, issued, calls>>

\* DeviceRepository.UpdateDeviceHomeID: the clock reading
UpdateDeviceHomeIDBegin(p, id, homeID) ==
    /\ Start(p)
    /\ proc' = [proc EXCEPT ![p] =
                  [Process(p) EXCEPT !.pc = "PatchItem", !.id = id,
                                   !.homeID = homeID, !.now = Unix(clock),
                                   !.records = proc[p].records,
                                   !.event = proc[p].event]]
    /\ resp' = NoResp
    /\ UNCHANGED <<store, clock, issued>>

\* DeviceRepository.UpdateDeviceHomeID: the UpdateItem call and return
UpdateDeviceHomeIDWrite(p) ==
    /\ proc[p].pc = "PatchItem"
    /\ store' = UpdateItem(store, proc[p].id,
                           HomeIDClauses(proc[p].homeID, proc[p].now))
    /\ Returned(p, "UpdateDeviceHomeID", proc[p].id,
                [ZeroDevice EXCEPT !.homeId = proc[p].homeID], ZeroDevice, "")
    /\ UNCHANGED <<clock, issued, calls>>

\* DeviceService.GetDevice: the empty-id check, then the repository
ServiceGetDevice(p, id) ==
    IF id = NoID
      THEN /\ Start(p)
           /\ Rejected(p, "service", "GetDevice", id, ZeroDevice,
                       <<"invalid device ID format">>, NoBody)
           /\ UNCHANGED <<store, clock, issued>>
      ELSE GetDevice(p, id)

\* DeviceService.DeleteDevice: the empty-id check, then the repository
ServiceDeleteDevice(p, id) ==
    IF id = NoID
      THEN /\ Start(p)
           /\ Rejected(p, "service", "DeleteDevice", id, ZeroDevice,
                       <<"invalid device ID format">>, NoBody)
           /\ UNCHANGED <<store, clock, issued>>
      ELSE DeleteDevice(p, id)

\* DeviceHandler.GetDevice: the path parameter check, ValidateDeviceID and
\* the service call
HandlerGetDevice(p, id) ==
    IF id = NoID \/ ~ValidateDeviceID(id)
      THEN /\ Start(p)
           /\ Rejected(p, "handler", "GetDevice", id, ZeroDevice,
                       DeviceIDError(id), NoBody)
           /\ UNCHANGED <<store, clock, issued>>
      ELSE ServiceGetDevice(p, id)

\* DeviceHandler.DeleteDevice: the path parameter check, ValidateDeviceID
\* and the service call
HandlerDeleteDevice(p, id) ==
    IF id = NoID \/ ~ValidateDeviceID(id)
      THEN /\ Start(p)
           /\ Rejected(p, "handler", "DeleteDevice", id, ZeroDevice,
                       DeviceIDError(id), NoBody)
           /\ UNCHANGED <<store, clock, issued>>
      ELSE ServiceDeleteDevice(p, id)

\* DeviceService.UpdateDeviceHomeID without the homeID check
ServiceUpdateDeviceHomeIDAnyHome(p, id, homeID) ==
    IF id = NoID
      THEN /\ Start(p)
           /\ Rejected(p, "service", "UpdateDeviceHomeID", id,
                       [ZeroDevice EXCEPT !.homeId = homeID],
                       <<"invalid device ID format">>, NoBody)
           /\ UNCHANGED <<store, clock, issued>>
      ELSE UpdateDeviceHomeIDBegin(p, id, homeID)

\* DeviceService.UpdateDeviceHomeID: the empty-id check, the empty-homeID
\* check, then the repository
ServiceUpdateDeviceHomeID(p, id, homeID) ==
    IF id = NoID
      THEN /\ Start(p)
           /\ Rejected(p, "service", "UpdateDeviceHomeID", id,
                       [ZeroDevice EXCEPT !.homeId = homeID],
                       <<"invalid device ID format">>, NoBody)
           /\ UNCHANGED <<store, clock, issued>>
    ELSE IF homeID = ""
      THEN /\ Start(p)
           /\ Rejected(p, "service", "UpdateDeviceHomeID", id,
                       [ZeroDevice EXCEPT !.homeId = homeID],
                       <<"home ID is required">>, NoBody)
           /\ UNCHANGED <<store, clock, issued>>
    ELSE UpdateDeviceHomeIDBegin(p, id, homeID)

\* DeviceRepository.UpdateDeviceHomeID: UpdateItem returns an error (the
\* table is unreachable, throttled, ...), which is wrapped and returned
UpdateDeviceHomeIDFail(p) ==
    /\ proc[p].pc = "PatchItem"
    /\ Returned(p, "UpdateDeviceHomeID", proc[p].id,
                [ZeroDevice EXCEPT !.homeId = proc[p].homeID], ZeroDevice,
                "DatabaseFailure")
    /\ UNCHANGED <<store, clock, issued, calls>>

\* the failures of a single store call: the SDK returns an error, the item
\* read does not unmarshal, the repository is one without domain errors
StoreFailures == {"DatabaseFailure", "UnmarshalFailure", "PlainError"}

\* DeviceRepository.GetDevice, GetItem or UnmarshalMap fails
GetDeviceFail(p, id, err) ==
    /\ Start(p)
    /\ Returned(p, "GetDevice", id, ZeroDevice, ZeroDevice, err)
    /\ UNCHANGED <<store, clock, issued>>

\* DeviceRepository.DeleteDevice, DeleteItem fails
DeleteDeviceFail(p, id, err) ==
    /\ Start(p)
    /\ Returned(p, "DeleteDevice", id, ZeroDevice, ZeroDevice, err)
    /\ UNCHANGED <<store, clock, issued>>

\* DeviceRepository.UpdateDevice, UpdateItem fails
UpdateDeviceWriteFail(p, err) ==
    /\ proc[p].pc = "UpdateItem"
    /\ Returned(p, "UpdateDevice", proc[p].id, proc[p].update, ZeroDevice,
                err)
    /\ UNCHANGED <<store, clock, issued, calls>>

\* SQSHandler.ProcessMessage is invoked with a delivered event (one whose
\* records can all be processed within the calls of this run)
ReceiveBatch(p, records) ==
    /\ proc[p].pc = "idle"
    /\ proc[p].records = <<>>
    /\ calls + Len(records) <= MaxCalls
    /\ proc' = [proc EXCEPT ![p].records = records, ![p].event = records]
    /\ resp' = NoResp
    /\ UNCHANGED <<store, clock, issued, calls>>

\* SQSService.ProcessMessage on a record body: json.Unmarshal, whose error
\* is returned as it is, then DeviceService.UpdateDeviceHomeID
ProcessMessage(p, msg) ==
    IF ~msg.valid
      THEN /\ Start(p)
           /\ proc' = [proc EXCEPT ![p] = AfterReturn(p, "SyntaxError")]
           /\ resp' = [NoResp EXCEPT
                         !.op = "ProcessMessage", !.err = "SyntaxError",
                         !.layer = "sqs",
                         !.batch = BatchOutcome(proc[p].records,
                                                "SyntaxError"),
                         !.record = CurrentRecord(proc[p].records),
                         !.event = proc[p].event]
           /\ UNCHANGED <<store, clock, issued>>
      ELSE ServiceUpdateDeviceHomeID(p, msg.deviceId, MessageHomeID(msg))

\* SQSHandler.ProcessMessage: the loop body for the current record
ProcessRecord(p) ==
    /\ proc[p].pc = "idle"
    /\ proc[p].records # <<>>
    /\ ProcessMessage(p, Head(proc[p].records))

\* an invocation is between two of its store calls
InFlight(p) == proc[p].pc # "idle"

\* no other invocation is in flight: calls are executed one after another
Alone(p) == \A q \in Procs \ {p} : ~InFlight(q)

Next ==
    \/ Tick
    \/ \E p \in Procs, d \in CreateInputs : CreateDevice(p, d)
    \/ \E p \in Procs, id \in CallerIds : GetDevice(p, id)
    \/ \E p \in Procs : GetDevices(p)
    \/ \E p \in Procs, id \in CallerIds : DeleteDevice(p, id)
    \/ \E p \in Procs, id \in CallerIds \cup {NoID}, u \in UpdateInputs :
          ServiceUpdateDevice(p, id, u, NoBody)
    \/ \E p \in Procs, id \in CallerIds \cup {NoID}, r \in UpdateRequests :
          HandlerUpdateDevice(p, id, r)
    \/ \E p \in Procs : UpdateDeviceWrite(p)
    \/ \E p \in Procs : UpdateDeviceReread(p)
    \/ \E p \in Procs, id \in CallerIds, h \in HomeIDInputs :
          UpdateDeviceHomeIDBegin(p, id, h)
    \/ \E p \in Procs : UpdateDeviceHomeIDWrite(p)

\* concurrent, uncoordinated invocations
Spec == Init /\ [][Next]_vars

\* the same operations executed one after another
SeqNext ==
    \/ Tick
    \/ \E p \in Procs, d \in CreateInputs : Alone(p) /\ CreateDevice(p, d)
    \/ \E p \in Procs, id \in CallerIds : Alone(p) /\ GetDevice(p, id)
    \/ \E p \in Procs : Alone(p) /\ GetDevices(p)
    \/ \E p \in Procs, id \in CallerIds : Alone(p) /\ DeleteDevice(p, id)
    \/ \E p \in Procs, id \in CallerIds \cup {NoID}, u \in UpdateInputs :
          Alone(p) /\ ServiceUpdateDevice(p, id, u, NoBody)
    \/ \E p \in Procs, id \in CallerIds \cup {NoID}, r \in UpdateRequests :
          Alone(p) /\ HandlerUpdateDevice(p, id, r)
    \/ \E p \in Procs : UpdateDeviceWrite(p)
    \/ \E p \in Procs : UpdateDeviceReread(p)
    \/ \E p \in Procs, id \in CallerIds, h \in HomeIDInputs :
          Alone(p) /\ UpdateDeviceHomeIDBegin(p, id, h)
    \/ \E p \in Procs : UpdateDeviceHomeIDWrite(p)

SeqSpec == Init /\ [][SeqNext]_vars

\* ------------------------------------------------------------------------
\* the request handlers over every combination of field values, one request
\* after another in a single invocation
\* ------------------------------------------------------------------------
ValidationNext ==
    \/ \E r \in CreateRequests : HandlerCreateDevice(1, r)
    \/ \E id \in issued, b \in UpdateBodies : HandlerUpdateDevice(1, id, b)
    \/ UpdateDeviceWrite(1)
    \/ UpdateDeviceReread(1)

ValidationSpec == Init /\ [][ValidationNext]_vars

\* ------------------------------------------------------------------------
\* the service and the handlers called with identifiers and home
\* identifiers of every shape, one call after another in a single invocation
\* ------------------------------------------------------------------------
\* identifiers handed to the service: issued, never issued, empty, not a UUID
EngineIds == CallerIds \cup {NoID, BadID}

\* home identifiers handed to DeviceService.UpdateDeviceHomeID
EngineHomeIDs == {"", "h3"}

EngineNext ==
    \/ \E d \in CreateInputs : CreateDevice(1, d)
    \/ \E id \in EngineIds : ServiceGetDevice(1, id)
    \/ \E id \in EngineIds : HandlerGetDevice(1, id)
    \/ \E id \in EngineIds : ServiceDeleteDevice(1, id)
    \/ \E id \in EngineIds : HandlerDeleteDevice(1, id)
    \/ \E id \in EngineIds, u \in UpdateInputs :
          ServiceUpdateDevice(1, id, u, NoBody)
    \/ \E id \in EngineIds, r \in UpdateRequests :
          HandlerUpdateDevice(1, id, r)
    \/ UpdateDeviceWrite(1)
    \/ UpdateDeviceReread(1)
    \/ \E id \in EngineIds, h \in EngineHomeIDs :
          ServiceUpdateDeviceHomeID(1, id, h)
    \/ UpdateDeviceHomeIDWrite(1)

EngineSpec == Init /\ [][EngineNext]_vars

\* ------------------------------------------------------------------------
\* the SQS listener: events of up to MaxBatch records are delivered to one
\* invocation, over a table filled by CreateDevice
\* ------------------------------------------------------------------------
QueueNext ==
    \/ \E d \in CreateInputs : proc[1].records = <<>> /\ CreateDevice(1, d)
    \/ \E b \in Batches : ReceiveBatch(1, b)
    \/ ProcessRecord(1)
    \/ UpdateDeviceHomeIDWrite(1)
    \/ UpdateDeviceHomeIDFail(1)

QueueSpec == Init /\ [][QueueNext]_vars

\* ------------------------------------------------------------------------
\* the service over a store whose calls can fail
\* ------------------------------------------------------------------------
FailureNext ==
    \/ EngineNext
    \/ GetDevices(1)
    \/ \E id \in CallerIds, e \in StoreFailures : GetDeviceFail(1, id, e)
    \/ \E id \in CallerIds, e \in StoreFailures \ {"UnmarshalFailure"} :
          DeleteDeviceFail(1, id, e)
    \/ \E e \in StoreFailures \ {"UnmarshalFailure"} :
          UpdateDeviceWriteFail(1, e)
    \/ UpdateDeviceHomeIDFail(1)

FailureSpec == Init /\ [][FailureNext]_vars

\* ------------------------------------------------------------------------
\* concurrent updates that set the same fields to different values
\* ------------------------------------------------------------------------
RaceUpdates ==
    { Device(NoID, "", "n2", "camera", "", 0, 0),
      Device(NoID, "", "n3", "sensor", "", 0, 0) }

RaceNext ==
    \/ Tick
    \/ \E p \in Procs, d \in CreateInputs : CreateDevice(p, d)
    \/ \E p \in Procs, id \in issued, u \in RaceUpdates :
          ServiceUpdateDevice(p, id, u, NoBody)
    \/ \E p \in Procs : UpdateDeviceWrite(p)
    \/ \E p \in Procs : UpdateDeviceReread(p)

RaceSpec == Init /\ [][RaceNext]_vars

\* ------------------------------------------------------------------------
\* MockDeviceRepository, the in-memory implementation of the repository
\* interface; `store` is its devices map.  The repository is used as
\* NewMockDeviceRepository returns it: SetError, which is not an operation
\* of the interface, is never called, so m.err is nil
\* ------------------------------------------------------------------------
\* the identifier every MockDeviceRepository.CreateDevice assigns
\* ("test-id-123")
MockTestID == 1

\* "if now <= existing.ModifiedAt { now = existing.ModifiedAt + 1 }"
MockNow(now, modifiedAt) == IF now <= modifiedAt THEN modifiedAt + 1 ELSE now

\* MockDeviceRepository.GetDevice
MockGetDevice(p, id) ==
    /\ Start(p)
    /\ IF id \in DOMAIN store
         THEN Returned(p, "GetDevice", id, ZeroDevice, store[id], "")
         ELSE Returned(p, "GetDevice", id, ZeroDevice, ZeroDevice,
                       "PlainError")
    /\ UNCHANGED <<store, clock, issued>>

\* MockDeviceRepository.GetDevices: the devices in the iteration order of
\* the map, and no error when the map is empty
MockGetDevices(p) ==
    /\ Start(p)
    /\ \E devices \in Scan(store) : resp' = ReturnedList(devices, devices, "")
    /\ UNCHANGED <<store, clock, issued, proc>>

\* MockDeviceRepository.CreateDevice
MockCreateDevice(p, device) ==
    /\ Start(p)
    /\ LET d == [device EXCEPT !.id = MockTestID,
                               !.createdAt = UnixMilli(clock),
                               !.modifiedAt = UnixMilli(clock)]
       IN /\ store' = [k \in (DOMAIN store) \cup {d.id} |->
                         IF k = d.id THEN d ELSE store[k]]
          /\ issued' = issued \cup {d.id}
          /\ Returned(p, "CreateDevice", NoID, device, d, "")
    /\ UNCHANGED clock

\* MockDeviceRepository.UpdateDevice
MockUpdateDevice(p, id, device) ==
    /\ Start(p)
    /\ IF id \notin DOMAIN store
         THEN /\ Returned(p, "UpdateDevice", id, device, ZeroDevice,
                          "PlainError")
              /\ UNCHANGED store
         ELSE LET existing ==
                    [store[id] EXCEPT
                       !.name = IF device.name # "" THEN device.name ELSE @,
                       !.type = IF device.type # "" THEN device.type ELSE @,
                       !.homeId = IF device.homeId # "" THEN device.homeId
                                  ELSE @,
                       !.modifiedAt = MockNow(UnixMilli(clock), @)]
              IN /\ store' = [store EXCEPT ![id] = existing]
                 /\ Returned(p, "UpdateDevice", id, device, existing, "")
    /\ UNCHANGED <<clock, issued>>

\* MockDeviceRepository.DeleteDevice
MockDeleteDevice(p, id) ==
    /\ Start(p)
    /\ IF id \notin DOMAIN store
         THEN /\ Returned(p, "DeleteDevice", id, ZeroDevice, ZeroDevice,
                          "PlainError")
              /\ UNCHANGED store
         ELSE /\ store' = [k \in (DOMAIN store) \ {id} |-> store[k]]
              /\ Returned(p, "DeleteDevice", id, ZeroDevice, ZeroDevice, "")
    /\ UNCHANGED <<clock, issued>>

\* MockDeviceRepository.UpdateDeviceHomeID
MockUpdateDeviceHomeID(p, id, homeID) ==
    /\ Start(p)
    /\ IF id \notin DOMAIN store
         THEN /\ Returned(p, "UpdateDeviceHomeID", id,
                          [ZeroDevice EXCEPT !.homeId = homeID], ZeroDevice,
                          "PlainError")
              /\ UNCHANGED store
         ELSE /\ store' = [store EXCEPT
                             ![id].homeId = homeID,
                             ![id].modifiedAt = MockNow(UnixMilli(clock), @)]
              /\ Returned(p, "UpdateDeviceHomeID", id,
                          [ZeroDevice EXCEPT !.homeId = homeID], ZeroDevice,
                          "")
    /\ UNCHANGED <<clock, issued>>

\* a service whose repository is a MockDeviceRepository, one call after
\* another
MockNext ==
    \/ Tick
    \/ \E d \in CreateInputs : MockCreateDevice(1, d)
    \/ \E id \in CallerIds : MockGetDevice(1, id)
    \/ MockGetDevices(1)
    \/ \E id \in CallerIds, u \in UpdateInputs : MockUpdateDevice(1, id, u)
    \/ \E id \in CallerIds : MockDeleteDevice(1, id)
    \/ \E id \in CallerIds, h \in HomeIDInputs :
          MockUpdateDeviceHomeID(1, id, h)

MockSpec == Init /\ [][MockNext]_vars

\* what a call of DeviceRepository returns: the device, the list, the
\* error and the table it leaves
Outcome(ret, list, err, tbl) ==
    [ret |-> ret, list |-> list, err |-> err, store |-> tbl]

\* the outcomes DeviceRepository can give to call op(id, arg) when nothing
\* else runs between its steps, on table tbl with the identifiers `used`
\* handed out and the clock at `now`
RepositoryCall(tbl, used, now, op, id, arg) ==
    IF op = "GetDevice" THEN
      IF ItemExists(tbl, id)
        THEN {Outcome(UnmarshalItem(tbl, id), <<>>, "", tbl)}
        ELSE {Outcome(ZeroDevice, <<>>, "NotFound", tbl)}
    ELSE IF op = "GetDevices" THEN
      {Outcome(ZeroDevice, GetDevicesResult(items).list,
               GetDevicesResult(items).err, tbl) : items \in Scan(tbl)}
    ELSE IF op = "CreateDevice" THEN
      {Outcome(NewDevice(arg, newID, UnixMilli(now)), <<>>, "",
               PutItem(tbl, NewDevice(arg, newID, UnixMilli(now)))) :
         newID \in NewUUID(used)}
    ELSE IF op = "DeleteDevice" THEN
      {Outcome(ZeroDevice, <<>>, "", DeleteItem(tbl, id))}
    ELSE IF op = "UpdateDevice" THEN
      IF ~ItemExists(tbl, id)
        THEN {Outcome(ZeroDevice, <<>>, "NotFound", tbl)}
      ELSE IF OnlyModifiedAt(arg)
        THEN {Outcome(UnmarshalItem(tbl, id), <<>>, "", tbl)}
      ELSE LET written == UpdateItem(tbl, id,
                                     UpdateClauses(arg, Unix(now)))
           IN {Outcome(UnmarshalItem(written, id), <<>>, "", written)}
    ELSE
      {Outcome(ZeroDevice, <<>>, "",
               UpdateItem(tbl, id, HomeIDClauses(arg.homeId, Unix(now))))}

\* what the caller of the service can tell about an outcome: the device, the
\* list, the kind of the failure (none on success) and the records kept
Observed(op, ret, list, err, tbl) ==
    [ret |-> ret, list |-> list,
     kind |-> ServiceError(op, RepositoryError(op, err)).type,
     store |-> tbl]

\* ------------------------------------------------------------------------
\* calls made one after another in one process (a warm Lambda container)
\* ------------------------------------------------------------------------
WarmInit ==
    /\ store = <<>>
    /\ clock = StartClock
    /\ issued = {}
    /\ proc = [p \in Procs |-> [IdleProc EXCEPT !.reused = TRUE]]
    /\ resp = NoResp
    /\ calls = 0

WarmNext ==
    \/ \E d \in CreateInputs : CreateDevice(1, d)
    \/ \E id \in CallerIds : ServiceGetDevice(1, id)
    \/ \E id \in CallerIds : ServiceDeleteDevice(1, id)
    \/ \E id \in CallerIds, u \in UpdateInputs :
          ServiceUpdateDevice(1, id, u, NoBody)
    \/ UpdateDeviceWrite(1)
    \/ UpdateDeviceReread(1)
    \/ \E e \in StoreFailures : UpdateDeviceWriteFail(1, e)

WarmSpec == WarmInit /\ [][WarmNext]_vars

\* ------------------------------------------------------------------------
\* GetDevices over tables that also hold items this program did not write
\* ------------------------------------------------------------------------
ScanKeys == Ids \cup {ForeignID}

\* items that can be stored under key k: a created record, the partial
\* record UpdateItem leaves on an absent key, and a record whose createdAt
\* attribute is not a number
ScanItems(k) ==
    { Device(k, "m1", "n1", "light", "h1", StartClock, StartClock),
      Device(k, "", "", "", "h3", 0, Unix(StartClock)),
      Device(k, "m1", "n1", "light", "h1", NotN, StartClock) }

ScanTables ==
    UNION { {t \in [S -> UNION {ScanItems(k) : k \in S}] :
                \A k \in S : t[k] \in ScanItems(k)} : S \in SUBSET ScanKeys }

ScanInit ==
    /\ store \in ScanTables
    /\ clock = StartClock
    /\ issued = Ids \cap DOMAIN store
    /\ proc = [p \in Procs |-> IdleProc]
    /\ resp = NoResp
    /\ calls = 0

ScanNext == \E p \in Procs : GetDevices(p)

ScanSpec == ScanInit /\ [][ScanNext]_vars

\* ------------------------------------------------------------------------
\* Properties
\* ------------------------------------------------------------------------
\* invocation p commits the UpdateItem of UpdateDevice in this step
WroteUpdate(p) == proc[p].pc = "UpdateItem" /\ proc'[p].pc = "GetUpdated"

\* invocation p commits the UpdateItem of UpdateDeviceHomeID in this step
WrotePatch(p) == proc[p].pc = "PatchItem" /\ proc'[p].pc = "idle"

\* invocation p returns from the full path of UpdateDevice in this step
ReturnedUpdate(p) == proc[p].pc = "GetUpdated" /\ proc'[p].pc = "idle"

\* the record was made by CreateDevice and has since been written by
\* UpdateDevice or UpdateDeviceHomeID
Mutated(r) == r.createdAt # 0 /\ r.modifiedAt # r.createdAt

\* C1: with calls executed one after another and a non-decreasing clock, no
\* step lowers the modifiedAt of a stored record (create included as the
\* starting value).
C1_ModifiedAtNeverDecreases ==
    [][\A id \in DOMAIN store :
          id \in DOMAIN store' =>
              store'[id].modifiedAt >= store[id].modifiedAt]_vars

\* C2: every update or updateHomeAssociation write that changes a mutable
\* field leaves modifiedAt strictly greater than it was, also when the clock
\* has not moved since the previous write.
C2_ChangeAdvancesModifiedAt ==
    [][\A id \in DOMAIN store :
          (/\ id \in DOMAIN store'
           /\ \E f \in MutableFields : store'[id][f] # store[id][f])
          => store'[id].modifiedAt > store[id].modifiedAt]_vars

\* C3: the modifiedAt of every stored record is a clock reading in
\* milliseconds, the unit of createdAt: a value the millisecond clock has
\* shown since the start.
C3_ModifiedAtInMillis ==
    \A id \in DOMAIN store : store[id].modifiedAt \in StartClock..clock

\* C4: under interleaved update and updateHomeAssociation calls, a write
\* that commits after another update/updateHomeAssociation write to the same
\* created record leaves modifiedAt no earlier than that write left it.
C4_LaterCommitNotEarlier ==
    [][\A p \in Procs :
          (/\ WroteUpdate(p) \/ WrotePatch(p)
           /\ ItemExists(store, proc[p].id)
           /\ Mutated(store[proc[p].id]))
          => store'[proc[p].id].modifiedAt
                 >= store[proc[p].id].modifiedAt]_vars

\* C5: merge correctness.  When UpdateDevice(id, P) returns successfully,
\* every mutable field present in P equals P's value and every field absent
\* from P equals the value the record had when the call read it, both in the
\* returned record and in the store; an update with no field returns the
\* stored record and writes nothing.
C5_MergeCorrect ==
    [][/\ \A p \in Procs :
            ReturnedUpdate(p) =>
              LET P == proc[p].update
                  R == proc[p].currentDevice
                  id == proc[p].id
              IN /\ resp'.err = ""
                 /\ ItemExists(store', id)
                 /\ \A f \in MutableFields :
                      LET v == IF P[f] # "" THEN P[f] ELSE R[f]
                      IN resp'.ret[f] = v /\ store'[id][f] = v
       /\ (/\ resp'.op = "UpdateDevice"
           /\ resp'.err = ""
           /\ OnlyModifiedAt(resp'.arg))
          => /\ store' = store
             /\ ItemExists(store, resp'.id)
             /\ resp'.ret = store[resp'.id]]_vars

\* C5 witness: a partial update of name and type returned a record that
\* still has the mac and homeId given at creation.
C5_Witness ==
    /\ resp.op = "UpdateDevice"
    /\ resp.err = ""
    /\ resp.arg.name = "n2"
    /\ resp.arg.mac = ""
    /\ resp.ret.name = "n2"
    /\ resp.ret.type = "camera"
    /\ resp.ret.mac = "m1"
    /\ resp.ret.homeId = "h1"

\* C6: dual-writer safety.  On an existing record, the UpdateItem of an
\* update that sets name/type and not homeId writes its name/type and keeps
\* the homeId stored at that moment; the UpdateItem of updateHomeAssociation
\* writes its homeId and keeps the mac, name and type stored at that moment.
\* So after both have committed, in either order and whatever was read
\* before, the record carries the update's name/type and the association's
\* homeId.
C6_NoClobber ==
    [][\A p \in Procs :
          LET id == proc[p].id
              P == proc[p].update
          IN /\ (/\ WroteUpdate(p)
                 /\ ItemExists(store, id)
                 /\ P.homeId = "")
                => /\ store'[id].homeId = store[id].homeId
                   /\ \A f \in {"name", "type"} :
                         P[f] # "" => store'[id][f] = P[f]
             /\ (WrotePatch(p) /\ ItemExists(store, id))
                => /\ store'[id].homeId = proc[p].homeID
                   /\ \A f \in {"mac", "name", "type"} :
                         store'[id][f] = store[id][f]]_vars

\* C6 witness: an update read the record with homeId h1, an association to
\* h3 committed after that read, the update then committed name/type, and
\* the record of a created device now carries both edits.
C6_Witness ==
    \E p \in Procs :
        /\ proc[p].pc = "GetUpdated"
        /\ proc[p].update.name = "n2"
        /\ proc[p].currentDevice.homeId = "h1"
        /\ ItemExists(store, proc[p].id)
        /\ store[proc[p].id].createdAt # 0
        /\ store[proc[p].id].homeId = "h3"
        /\ store[proc[p].id].name = "n2"
        /\ store[proc[p].id].type = "camera"

\* C7: a mutation is atomic: while UpdateDevice is between its read and its
\* write of a record, no step of another invocation changes or removes that
\* record.
C7_AtomicMutation ==
    [][\A p \in Procs :
          (proc[p].pc = "UpdateItem" /\ proc'[p] = proc[p])
          => /\ ItemExists(store', proc[p].id)
             /\ store'[proc[p].id] = store[proc[p].id]]_vars

\* C8: a write of update or updateHomeAssociation changes neither createdAt
\* nor id of any record that exists, and removes none.
C8_CreatedAtAndIdImmutable ==
    [][\A p \in Procs :
          (WroteUpdate(p) \/ WrotePatch(p))
          => \A k \in DOMAIN store :
                /\ k \in DOMAIN store'
                /\ store'[k].createdAt = store[k].createdAt
                /\ store'[k].id = store[k].id]_vars

\* C8 witness: a created record that both an update and an association have
\* written since.
C8_Witness ==
    \E k \in DOMAIN store :
        /\ store[k].createdAt >= StartClock
        /\ store[k].id = k
        /\ store[k].name = "n2"
        /\ store[k].homeId = "h3"
        /\ Mutated(store[k])

\* C9: uniqueness.  The id a create returns was never returned by an earlier
\* create and keys no stored record, whatever id the input carried; the
\* record is stored under that id, and no existing record is changed.
C9_CreateAssignsFreshId ==
    [][resp'.op = "CreateDevice" =>
          /\ resp'.ret.id \notin issued
          /\ resp'.ret.id \notin DOMAIN store
          /\ ItemExists(store', resp'.ret.id)
          /\ \A k \in DOMAIN store :
                k \in DOMAIN store' /\ store'[k] = store[k]]_vars

\* C9 witness: a create whose input carried the id of a stored record was
\* given another id, and both records are stored.
C9_Witness ==
    /\ resp.op = "CreateDevice"
    /\ resp.arg.id # NoID
    /\ ItemExists(store, resp.arg.id)
    /\ resp.ret.id # resp.arg.id
    /\ ItemExists(store, resp.ret.id)

\* C10: the record a successful create returns has a non-empty id, a
\* non-zero createdAt, modifiedAt equal to createdAt and the caller's mac,
\* name, type and homeId.
C10_CreateReturnsRecord ==
    (resp.op = "CreateDevice" /\ resp.err = "") =>
        /\ resp.ret.id # NoID
        /\ resp.ret.createdAt # 0
        /\ resp.ret.modifiedAt = resp.ret.createdAt
        /\ \A f \in MutableFields : resp.ret[f] = resp.arg[f]

\* C10 witness: a create returned, for an input that carried its own
\* timestamps.
C10_Witness ==
    /\ resp.op = "CreateDevice"
    /\ resp.err = ""
    /\ resp.arg.modifiedAt # 0
    /\ resp.ret.name = "n1"

C12_NotFoundIffNeverCreatedOrDeleted ==
    [][/\ resp'.op = "GetDevice" =>
            /\ resp'.err = "NotFound" <=> resp'.id \notin DOMAIN store
            /\ resp'.err = "NotFound" => resp'.ret = ZeroDevice
       /\ \A id \in DOMAIN store' :
            id \notin DOMAIN store =>
                resp'.op = "CreateDevice" /\ resp'.ret.id = id]_vars

\* C13: the write of UpdateDeviceHomeID on an id that has no record reports
\* NotFound and leaves the store unchanged.
C13_PatchAbsentIsNotFound ==
    [][\A p \in Procs :
          (WrotePatch(p) /\ proc[p].id \notin DOMAIN store)
          => resp'.err = "NotFound" /\ store' = store]_vars

\* C14: DeleteDevice reports success exactly when a record was stored under
\* the id, and NotFound when none was.
C14_DeleteAbsentIsNotFound ==
    [][resp'.op = "DeleteDevice" =>
          /\ resp'.err = "" <=> resp'.id \in DOMAIN store
          /\ resp'.err = "NotFound" <=> resp'.id \notin DOMAIN store]_vars

\* C15: with calls executed one after another, an UpdateDevice of an id that
\* has no record returns in a step that leaves the store unchanged, with
\* NotFound and no record whenever the call reached the service with a
\* non-empty id (a request the handler rejects, or an empty id, is a
\* validation failure instead), and no invocation is ever left about to
\* issue an UpdateItem for an id without a record.
C15_UpdateAbsentIsNotFound ==
    [][/\ (resp'.op = "UpdateDevice" /\ resp'.id \notin DOMAIN store)
          => /\ store' = store
             /\ resp'.ret = ZeroDevice
             /\ resp'.err \in {"NotFound", "ValidationFailure"}
             /\ (resp'.id # NoID /\ resp'.layer # "handler")
                  => resp'.err = "NotFound"
       /\ \A p \in Procs :
            proc'[p].pc = "UpdateItem" => proc'[p].id \in DOMAIN store']_vars

\* C15 witness: an update that supplied fields returned NotFound for an id
\* no create ever returned, while another record is stored.
C15_Witness ==
    /\ resp.op = "UpdateDevice"
    /\ resp.layer = "repository"
    /\ resp.err = "NotFound"
    /\ resp.id = ForeignID
    /\ resp.arg.name = "n2"
    /\ store # <<>>
    /\ ForeignID \notin DOMAIN store

\* an item of the table that unmarshals into a Device
Unmarshals(item) == ~UnmarshalFails(item)

\* C16: a GetDevices over a table with no item returns NotFound, a
\* successful GetDevices never returns an empty list, and over a table with
\* at least one item that unmarshals it succeeds and returns each such stored
\* record exactly once.
C16_ListEmptyIsNotFound ==
    resp.op = "GetDevices" =>
        LET good == {k \in DOMAIN store : Unmarshals(store[k])}
        IN /\ store = <<>> => resp.err = "NotFound" /\ resp.list = <<>>
           /\ resp.err = "" => resp.list # <<>>
           /\ good # {} =>
                /\ resp.err = ""
                /\ Len(resp.list) = Cardinality(good)
                /\ {resp.list[i] : i \in 1..Len(resp.list)}
                      = {store[k] : k \in good}

\* C16 witness: a list returned NotFound on a table that held a created
\* record before and holds none now.
C16_Witness ==
    /\ resp.op = "GetDevices"
    /\ resp.err = "NotFound"
    /\ store = <<>>
    /\ issued # {}

\* C17: when Scan retrieved items of which some unmarshal, GetDevices
\* succeeds and returns exactly those items, in the order Scan delivered
\* them; when it retrieved at least one item and none unmarshals, it returns
\* the unmarshal failure and no list.
C17_ScanSkipsMalformed ==
    resp.op = "GetDevices" =>
        LET good == SelectSeq(resp.items, Unmarshals)
        IN /\ good # <<>> => resp.err = "" /\ resp.list = good
           /\ (resp.items # <<>> /\ good = <<>>) =>
                /\ resp.err = "UnmarshalFailure"
                /\ resp.list = <<>>

\* C17 witness: Scan delivered three items, the second of which does not
\* unmarshal, and GetDevices returned the first and the third.
C17_Witness ==
    /\ resp.op = "GetDevices"
    /\ resp.err = ""
    /\ Len(resp.items) = 3
    /\ UnmarshalFails(resp.items[2])
    /\ resp.list = <<resp.items[1], resp.items[3]>>

\* C18: on a created record, the write of UpdateDeviceHomeID(id, h) returns
\* success and leaves the record that a following GetDevice(id) unmarshals
\* with homeId = h, a modifiedAt greater than before, and id, mac, name,
\* type and createdAt as before.
C18_PatchFrame ==
    [][\A p \in Procs :
          LET id == proc[p].id
          IN (/\ WrotePatch(p)
              /\ id \in DOMAIN store
              /\ store[id].createdAt # 0)
             => /\ resp'.err = ""
                /\ UnmarshalItem(store', id).homeId = proc[p].homeID
                /\ UnmarshalItem(store', id).modifiedAt > store[id].modifiedAt
                /\ \A f \in {"id", "mac", "name", "type", "createdAt"} :
                      UnmarshalItem(store', id)[f] = store[id][f]]_vars

\* the partial update names no mutable field
NoMutableField(d) == \A f \in MutableFields : d[f] = ""

\* C19: an update that names no mutable field leaves the store unchanged on
\* every entry path: the step in which such an update returns, rejected by
\* the handler or the service or answered by the repository with the current
\* record or NotFound, changes no record, a successful one returns the
\* stored record, and no UpdateItem is ever issued for such an update.
C19_EmptyUpdateIsNoOp ==
    [][/\ (resp'.op = "UpdateDevice" /\ NoMutableField(resp'.arg))
          => /\ store' = store
             /\ resp'.err = "" =>
                  /\ resp'.id \in DOMAIN store
                  /\ resp'.ret = store[resp'.id]
       /\ \A p \in Procs :
            WroteUpdate(p) => ~NoMutableField(proc[p].update)]_vars

\* C19 witness: a direct call with no field returned, from the repository
\* and without error, the stored record that an earlier update had written.
C19_Witness ==
    /\ resp.op = "UpdateDevice"
    /\ resp.layer = "repository"
    /\ resp.err = ""
    /\ NoMutableField(resp.arg)
    /\ resp.id \in DOMAIN store
    /\ resp.ret = store[resp.id]
    /\ resp.ret.name = "n2"
    /\ Mutated(resp.ret)

\* C20: an UpdateDevice call made on DeviceService with a partial update
\* that names no mutable field is rejected by the service with a validation
\* failure, before the repository is called, and the store is unchanged.
C20_EngineRejectsEmptyUpdate ==
    [][(/\ resp'.op = "UpdateDevice"
        /\ resp'.layer # "handler"
        /\ NoMutableField(resp'.arg))
       => /\ resp'.err = "ValidationFailure"
          /\ resp'.layer = "service"
          /\ store' = store]_vars

\* the value v violates the creation rule of field f
Offending(f, v) ==
    CASE f = "mac" -> v \notin MACs
      [] f = "name" -> v \in {"", LongName}
      [] f = "type" -> v \notin validTypes
      [] f = "homeId" -> v \notin UUIDs

\* the violations that name field f
ViolationsOf(f) ==
    CASE f = "mac" -> {"MAC address is required",
                       "MAC address format is invalid (expected format: XX:XX:XX:XX:XX:XX)"}
      [] f = "name" -> {"name is required",
                        "name must be between 1 and 100 characters"}
      [] f = "type" -> {"type is required",
                        "type must be one of: thermostat, light, camera, sensor"}
      [] f = "homeId" -> {"homeId is required", "homeId must be a valid UUID"}

Supplied(body) == {f \in MutableFields : body[f] # None}

\* the supplied fields whose value the creation rule rejects
OffendingIn(body) == {f \in Supplied(body) : Offending(f, body[f][1])}

\* C22: an update request that supplies at least one of mac, name, type,
\* homeId is rejected with a validation failure exactly when one of the
\* supplied values violates the creation rule of its field; no request with
\* such a value is passed on to the repository, and no UpdateItem writes a
\* value that creation rejects.
C22_UpdateValidatedAsCreate ==
    [][/\ (resp'.op = "UpdateDevice" /\ Supplied(resp'.body) # {})
          => (resp'.err = "ValidationFailure"
                <=> OffendingIn(resp'.body) # {})
       /\ \A p \in Procs :
            (proc[p].pc = "idle" /\ proc'[p].pc = "UpdateItem")
            => OffendingIn(proc'[p].body) = {}
       /\ \A p \in Procs :
            WroteUpdate(p) =>
              \A f \in MutableFields :
                 proc[p].update[f] # "" =>
                    /\ ~Offending(f, proc[p].update[f])
                    /\ store'[proc[p].id][f] = proc[p].update[f]]_vars

\* C23: an update request for an existing record that supplies a valid mac,
\* and no value that is rejected, succeeds, and the record stored and
\* returned carries the supplied mac.
C23_MacMutable ==
    [][(/\ resp'.op = "UpdateDevice"
        /\ resp'.id \in DOMAIN store
        /\ resp'.body.mac # None
        /\ OffendingIn(resp'.body) = {})
       => /\ resp'.err = ""
          /\ resp'.id \in DOMAIN store'
          /\ store'[resp'.id].mac = resp'.body.mac[1]
          /\ resp'.ret.mac = resp'.body.mac[1]]_vars

\* C24: GetDevice, DeleteDevice and UpdateDevice of the service, called with
\* an identifier that is empty or not a UUID, return a validation failure
\* from the service, before the repository is called, and leave the table
\* as it is.
C24_EngineRejectsInvalidId ==
    [][/\ (/\ resp'.op \in {"GetDevice", "DeleteDevice", "UpdateDevice"}
           /\ resp'.layer # "handler"
           /\ ~ValidateDeviceID(resp'.id))
          => /\ resp'.err = "ValidationFailure"
             /\ resp'.layer = "service"
             /\ store' = store
       /\ \A p \in Procs :
            (proc[p].pc = "idle" /\ proc'[p].pc = "UpdateItem")
            => ValidateDeviceID(proc'[p].id)]_vars

\* C25: UpdateDeviceHomeID of the service returns a validation failure from
\* the service, with the table unchanged and no repository call begun, when
\* the identifier or the home identifier is empty; otherwise it begins one
\* repository call, which issues exactly one UpdateItem with the home
\* identifier and returns.
C25_PatchValidatedThenDelegatedOnce ==
    [][/\ (resp'.op = "UpdateDeviceHomeID"
           /\ (resp'.id = NoID \/ resp'.arg.homeId = ""))
          => /\ resp'.err = "ValidationFailure"
             /\ resp'.layer = "service"
             /\ store' = store
             /\ \A p \in Procs : proc'[p].pc # "PatchItem"
       /\ (resp'.op = "UpdateDeviceHomeID" /\ resp'.layer = "service")
          => (resp'.id = NoID \/ resp'.arg.homeId = "")
       /\ \A p \in Procs :
            (proc[p].pc = "idle" /\ proc'[p].pc = "PatchItem")
            => /\ proc'[p].id # NoID
               /\ proc'[p].homeID # ""
               /\ store' = store
       /\ \A p \in Procs :
            proc[p].pc = "PatchItem"
            => \/ proc'[p] = proc[p] /\ store' = store
               \/ /\ proc'[p].pc = "idle"
                  /\ resp'.op = "UpdateDeviceHomeID"
                  /\ resp'.layer = "repository"
                  /\ resp'.id = proc[p].id
                  /\ resp'.arg.homeId = proc[p].homeID
                  /\ store' = UpdateItem(store, proc[p].id,
                                 HomeIDClauses(proc[p].homeID, proc[p].now))]_vars

\* a call with a non-empty identifier and home identifier was delegated and
\* returned after its single UpdateItem
C25_Witness ==
    /\ resp.op = "UpdateDeviceHomeID"
    /\ resp.layer = "repository"
    /\ resp.err = ""
    /\ resp.id \in issued
    /\ resp.arg.homeId = "h3"
    /\ store[resp.id].homeId = "h3"

\* the loop of SQSHandler.ProcessMessage in invocation p is at a record and
\* this step acts on it
AtRecord(p) ==
    /\ proc[p].records # <<>>
    /\ proc'[p] # proc[p]

\* C26: a record whose body cannot be decoded makes the listener return a
\* failure of kind ValidationFailure; no repository call is begun, the table
\* is unchanged and the record is not processed again.
C26_DecodeFailureIsValidationFailure ==
    [][\A p \in Procs :
         (AtRecord(p) /\ proc[p].pc = "idle"
            /\ ~Head(proc[p].records).valid)
         => /\ resp'.err = "ValidationFailure"
            /\ store' = store
            /\ proc'[p].pc = "idle"
            /\ proc'[p].records \in {<<>>, Tail(proc[p].records)}]_vars

\* C27: when the processing of a record of an event fails, the records
\* after it in the same event are still processed.
C27_FailureHaltsOnlyThatMessage ==
    [][\A p \in Procs :
         (AtRecord(p) /\ resp'.err # "")
         => proc'[p].records = Tail(proc[p].records)]_vars

C29_ActionLabelIgnored ==
    [][\A p \in Procs :
         /\ (AtRecord(p) /\ proc[p].pc = "idle")
            => \A a \in Actions :
                 ProcessMessage(p, [Head(proc[p].records) EXCEPT !.action = a])
         /\ (AtRecord(p) /\ proc[p].pc = "PatchItem" /\ resp'.err = "")
            => /\ proc[p].id = Head(proc[p].records).deviceId
               /\ store'[proc[p].id].homeId = Head(proc[p].records).homeId]_vars

\* a record labelled "dissociate" was applied: the device has the home
\* identifier of the record
C29_Witness ==
    /\ resp.op = "UpdateDeviceHomeID"
    /\ resp.err = ""
    /\ resp.record # <<>>
    /\ resp.record[1].action = "dissociate"
    /\ resp.id \in issued
    /\ store[resp.id].homeId = resp.record[1].homeId
    /\ store[resp.id].homeId # ""

\* C30: when a repository call of a service operation fails, the service
\* returns an error (never success) that is a domain error with a non-empty
\* operation and layer; for a domain error of the repository it has the
\* same kind, operation and cause, for any other error it is an internal
\* failure whose cause is that error.
C30_StoreFailurePropagated ==
    [][(resp'.layer = "repository" /\ resp'.err # "")
       => /\ resp'.repoErr # NoError
          /\ resp'.passed # NoError
          /\ resp'.passed.domain
          /\ resp'.passed.operation = resp'.op
          /\ resp'.passed.layer = "service"
          /\ resp'.repoErr.domain
               => /\ resp'.passed.type = resp'.repoErr.type
                  /\ resp'.passed.type = resp'.err
                  /\ resp'.passed.cause = resp'.repoErr.cause
                  /\ resp'.passed.text = resp'.repoErr.text
          /\ ~resp'.repoErr.domain
               => /\ resp'.passed.type = "InternalFailure"
                  /\ resp'.passed.cause = resp'.repoErr.text
                  /\ resp'.passed.cause # ""]_vars

\* UpdateItem of an update failed with an SDK error: the service returned a
\* database failure that names UpdateDevice and carries the SDK error
C30_Witness ==
    /\ resp.op = "UpdateDevice"
    /\ resp.err = "DatabaseFailure"
    /\ resp.passed.type = "DatabaseFailure"
    /\ resp.passed.cause = SDKError
    /\ resp.passed.layer = "service"

\* the position in event of the last record for device d (0: none)
LastFor(event, d) ==
    LET at == {i \in 1..Len(event) : event[i].valid /\ event[i].deviceId = d}
    IN IF at = {} THEN 0 ELSE CHOOSE i \in at : \A j \in at : j <= i

\* C35: the records of an event are processed in delivery order, one at a
\* time: the record processed is the first one not yet processed, the
\* records before it were all applied, and when the last record has been
\* applied every device named in the event has the home identifier of the
\* last record that names it; the first record that fails ends the
\* processing with an error.
C35_BatchInDeliveryOrder ==
    [][\A p \in Procs :
         AtRecord(p) =>
           LET event == proc[p].event
               done == Len(event) - Len(proc[p].records)
           IN /\ done >= 0
              /\ proc[p].records = SubSeq(event, done + 1, Len(event))
              /\ resp'.record \in {<<>>, <<event[done + 1]>>}
              /\ (resp'.batch = "next")
                   => /\ resp'.err = ""
                      /\ proc'[p].event = event
                      /\ proc'[p].records = SubSeq(event, done + 2, Len(event))
              /\ (resp'.batch = "nil")
                   => /\ resp'.err = ""
                      /\ done + 1 = Len(event)
                      /\ \A d \in DOMAIN store' :
                           LastFor(event, d) # 0 =>
                             store'[d].homeId =
                                 event[LastFor(event, d)].homeId
              /\ (resp'.err # "")
                   => /\ resp'.batch = "error"
                      /\ proc'[p] = IdleProc]_vars

\* an event of two records for the same created device, with home
\* identifiers h3 then h2, was processed to its end: the device is in h2
C35_Witness ==
    /\ resp.batch = "nil"
    /\ Len(resp.event) = 2
    /\ resp.event[1].valid /\ resp.event[2].valid
    /\ resp.event[1].deviceId = resp.id
    /\ resp.event[2].deviceId = resp.id
    /\ resp.event[1].homeId = "h3"
    /\ resp.event[2].homeId = "h2"
    /\ resp.id \in issued
    /\ resp.id \in DOMAIN store
    /\ store[resp.id].homeId = "h2"
    /\ store[resp.id].mac # ""

\* a record as CreateDevice writes it: its id is its key, mac, name and type
\* are set and both timestamps are set
WellFormed(tbl, k) ==
    /\ tbl[k].id = k
    /\ tbl[k].mac # ""
    /\ tbl[k].name # ""
    /\ tbl[k].type # ""
    /\ tbl[k].createdAt # 0
    /\ tbl[k].modifiedAt # 0

\* C36: every item of the table is a record that CreateDevice wrote under
\* an identifier it issued, with mac, name, type and both timestamps set;
\* no item holds only the attributes of an update.
C36_RecordsWellFormed ==
    \A k \in DOMAIN store : k \in issued /\ WellFormed(store, k)

\* C37: whenever UpdateDevice returns without error, also when other calls
\* run between its steps, the record returned has the identifier asked for
\* and carries every field the update supplied.
C37_UpdateReturnsUpdatedRecord ==
    [][(resp'.op = "UpdateDevice" /\ resp'.err = "")
       => /\ resp'.ret.id = resp'.id
          /\ \A f \in MutableFields :
               resp'.arg[f] # "" => resp'.ret[f] = resp'.arg[f]]_vars

\* C38: the homeId of every item of the table is a UUID, whichever of
\* CreateDevice, UpdateDevice and UpdateDeviceHomeID (called for an SQS
\* record) wrote it last.
C38_HomeIdIsUUID ==
    \A k \in DOMAIN store : store[k].homeId \in UUIDs

\* the name and type of record r were written by one call: both are those
\* of the create input or both are those of one update
FromOneCall(r) ==
    \/ \E d \in CreateInputs : r.name = d.name /\ r.type = d.type
    \/ \E u \in RaceUpdates : r.name = u.name /\ r.type = u.type

\* C34: when updates that set the same fields run concurrently on a record,
\* the UpdateItem of each writes all its fields and its own modifiedAt at
\* once, so the stored values of those fields always come from one and the
\* same call, together with the modifiedAt of that call.
C34_LastWriteWinsWhole ==
    [][/\ \A k \in DOMAIN store' : FromOneCall(store'[k])
       /\ \A p \in Procs :
            WroteUpdate(p) =>
              /\ store'[proc[p].id].modifiedAt = proc[p].now
              /\ \A f \in MutableFields :
                   proc[p].update[f] # ""
                     => store'[proc[p].id][f] = proc[p].update[f]
              /\ \A k \in DOMAIN store \ {proc[p].id} :
                   store'[k] = store[k]]_vars

\* two updates of the same record with different names and types, started
\* at different clock readings, have both written: the record has the name,
\* the type and the modifiedAt of the second invocation
C34_Witness ==
    /\ proc[1].pc = "GetUpdated"
    /\ proc[2].pc = "GetUpdated"
    /\ proc[1].id = proc[2].id
    /\ proc[1].update # proc[2].update
    /\ proc[1].now # proc[2].now
    /\ proc[1].id \in DOMAIN store
    /\ store[proc[1].id].name = proc[2].update.name
    /\ store[proc[1].id].type = proc[2].update.type
    /\ store[proc[1].id].modifiedAt = proc[2].now

\* the operations DeviceHandler calls on the service
HandlerOps ==
    {"CreateDevice", "GetDevice", "GetDevices", "DeleteDevice",
     "UpdateDevice"}

\* C32: the response built from an error of the service has status 400 for
\* a validation failure, 404 for not-found and 500 for a database,
\* unmarshal or internal failure; its body holds a code and the message of
\* the error and nothing else, so it is the response of any error of the
\* same kind and message, whatever the cause, operation and layer.
C32_ResponseByKindOnly ==
    [][(resp'.op \in HandlerOps /\ resp'.passed # NoError)
       => LET e == resp'.passed
              r == resp'.response
          IN /\ e.type = "ValidationFailure"
                  => r.statusCode = StatusBadRequest
             /\ e.type = "NotFound" => r.statusCode = StatusNotFound
             /\ e.type \in {"DatabaseFailure", "UnmarshalFailure",
                            "InternalFailure"}
                  => r.statusCode = StatusInternalServerError
             /\ r.statusCode \in {StatusBadRequest, StatusNotFound,
                                  StatusInternalServerError}
             /\ DOMAIN r.body = {"code", "message"}
             /\ r.body.message = <<e.text>>
             /\ r = ErrorResponse(
                      ErrorValue(TRUE, e.type, "", "", "", e.text))]_vars

\* GetItem failed with an SDK error: the response has status 500 and a
\* message without the text of the SDK error
C32_Witness ==
    /\ resp.op = "GetDevice"
    /\ resp.passed.type = "DatabaseFailure"
    /\ resp.passed.cause = SDKError
    /\ resp.response.statusCode = StatusInternalServerError
    /\ resp.response.body.code = "INTERNAL_ERROR"
    /\ resp.response.body.message = <<resp.passed.text>>

\* the tags the caller that holds the first error of process p reads from it
\* now
Seen(p) ==
    IF proc[p].held.object = "ErrDomainDeviceNotFound"
      THEN proc[p].predefined
      ELSE proc[p].held.tags

\* C31: the operation, layer and device id of an error value returned by a
\* call are not changed by the calls made after it: the caller that still
\* holds the error reads the tags it had when it was returned.
C31_ReturnedErrorKeepsTags ==
    \A p \in Procs :
       proc[p].held # NoHeld => Seen(p) = proc[p].held.tags

RepositoryOps ==
    {"GetDevice", "GetDevices", "CreateDevice", "UpdateDevice",
     "DeleteDevice", "UpdateDeviceHomeID"}

\* C33: MockDeviceRepository can stand in for DeviceRepository: whatever the
\* calls made so far, the next call gives the caller of the service the same
\* success or failure, the same kind of failure, the same device or list and
\* leaves the same records as DeviceRepository gives for that call on the
\* same records.
C33_MockMatchesRepository ==
    [][resp'.op \in RepositoryOps =>
         Observed(resp'.op, resp'.ret, resp'.list, resp'.err, store')
           \in {Observed(resp'.op, o.ret, o.list, o.err, o.store) :
                  o \in RepositoryCall(store, issued, clock, resp'.op,
                                       resp'.id, resp'.arg)}]_vars

====
